---- MODULE Spec2Model ----
(***************************************************************************)
(* Model of find_emojis.py: the emoji classifier, the console.* call       *)
(* suppressor, the file scanner, the directory walker and the reporter.    *)
(* A character is a one-character string; a line, a file content and a     *)
(* file name are sequences of characters.  Positions keep the source's     *)
(* zero-based offsets, so line[pos + 1] is Python's line[pos].             *)
(***************************************************************************)
EXTENDS Integers, Sequences, FiniteSets, TLC

VARIABLES
    \* is_in_console_log(line, col_position)
    line, col_position, pc, search, mstart, pos, paren_count, in_string,
    string_char, escaped, ret,
    \* find_emojis_in_file(filepath)
    file, fpc, lines, line_num, col_num, emojis_found,
    \* scan_directory(root_dir) and main()
    root_dir, tree, pending, results, total_emojis, wpc, output

lineVars == <<line, col_position, pc, search, mstart, pos, paren_count,
              in_string, string_char, escaped, ret>>
fileVars == <<file, fpc, lines, line_num, col_num, emojis_found>>
walkVars == <<root_dir, tree, pending, results, total_emojis, wpc, output>>
vars == <<lineVars, fileVars, walkVars>>

----------------------------------------------------------------------------
(* Characters *)

\* The characters the model draws from, named where a literal would be unreadable.
EMOJI == "U+1F600"
STAR == "U+2B50"
EACUTE == "U+00E9"
BADBYTE == "xFF"
NL == "\n"
BACKSLASH == "\\"
DQUOTE == "\""
SQUOTE == "'"
BACKTICK == "U+0060"
TAB == "\t"

\* The printable ASCII characters, from code 32 to code 126.
ASCII ==
    <<" ", "!", DQUOTE, "#", "$", "%", "&", SQUOTE, "(", ")", "*", "+", ",", "-",
      ".", "/", "0", "1", "2", "3", "4", "5", "6", "7", "8", "9", ":", ";", "<",
      "=", ">", "?", "@", "A", "B", "C", "D", "E", "F", "G", "H", "I", "J", "K",
      "L", "M", "N", "O", "P", "Q", "R", "S", "T", "U", "V", "W", "X", "Y", "Z",
      "[", BACKSLASH, "]", "^", "_", BACKTICK, "a", "b", "c", "d", "e", "f", "g",
      "h", "i", "j", "k", "l", "m", "n", "o", "p", "q", "r", "s", "t", "u", "v",
      "w", "x", "y", "z", "{", "|", "}", "~">>

\* ord(char), the code point of a character of the model.
ord(char) ==
    CASE char = EMOJI -> 128512
      [] char = STAR -> 11088
      [] char = EACUTE -> 233
      [] char = TAB -> 9
      [] char = NL -> 10
      [] OTHER -> 31 + (CHOOSE k \in 1..Len(ASCII) : ASCII[k] = char)

is_emoji(char) ==
    LET code == ord(char) IN
    \/ (128512 <= code /\ code <= 128591)
    \/ (127744 <= code /\ code <= 128511)
    \/ (128640 <= code /\ code <= 128767)
    \/ (9728 <= code /\ code <= 9983)
    \/ (9984 <= code /\ code <= 10175)
    \/ (129280 <= code /\ code <= 129535)
    \/ (129648 <= code /\ code <= 129791)
    \/ (126976 <= code /\ code <= 127023)
    \/ code \in {10084, 9829, 9830, 9824, 9827, 9832, 9855, 9875, 9888, 9889,
                 9898, 9899, 9917, 9918, 9924, 9925, 9934, 9940, 9962, 9970,
                 9971, 9973, 9978, 9981, 9989, 9994, 9995, 10024, 10060,
                 10062, 10067, 10068, 10069, 10071, 10133, 10134, 10135,
                 10160, 10175}
    \/ (8592 <= code /\ code <= 8703)
    \/ code \in {10006, 10004, 9745, 11088}

----------------------------------------------------------------------------
(* The console.* pattern *)

CONSOLE == <<"c", "o", "n", "s", "o", "l", "e">>
METHODS == << <<"l", "o", "g">>, <<"w", "a", "r", "n">>,
              <<"e", "r", "r", "o", "r">>, <<"i", "n", "f", "o">>,
              <<"d", "e", "b", "u", "g">> >>

\* \s of the pattern, on the characters of the model.
IsSpace(c) == c \in {" ", TAB}

\* s has the literal lit at zero-based offset i.
LiteralAt(s, lit, i) ==
    /\ i + Len(lit) <= Len(s)
    /\ \A k \in 1..Len(lit) : s[i + k] = lit[k]

\* \s* from offset i: greedy, and what follows it in the pattern is never
\* whitespace, so the greedy end is the only end that can match.
RECURSIVE SkipSpaces(_, _)
SkipSpaces(s, i) ==
    IF i < Len(s) /\ IsSpace(s[i + 1]) THEN SkipSpaces(s, i + 1) ELSE i

\* (log|warn|error|info|debug)\s*\( at offset i: the end of the match, -1 if none.
MethodEnd(s, i, m) ==
    IF ~LiteralAt(s, m, i) THEN -1
    ELSE LET d == SkipSpaces(s, i + Len(m)) IN
         IF d < Len(s) /\ s[d + 1] = "(" THEN d + 1 ELSE -1

\* console_pattern anchored at offset i: match.end(), or -1 when there is no match.
console_pattern(s, i) ==
    IF ~LiteralAt(s, CONSOLE, i) THEN -1
    ELSE LET b == SkipSpaces(s, i + Len(CONSOLE)) IN
         IF ~(b < Len(s) /\ s[b + 1] = ".") THEN -1
         ELSE LET c == SkipSpaces(s, b + 1)
                  hits == {k \in 1..Len(METHODS) : MethodEnd(s, c, METHODS[k]) # -1}
              IN IF hits = {} THEN -1
                 ELSE MethodEnd(s, c, METHODS[CHOOSE k \in hits : \A j \in hits : k <= j])

\* re.finditer: the start of the next match at or after offset from, -1 if none.
finditer(s, from) ==
    LET starts == {i \in from..(Len(s) - 1) : console_pattern(s, i) # -1} IN
    IF starts = {} THEN -1 ELSE CHOOSE i \in starts : \A j \in starts : i <= j

----------------------------------------------------------------------------
(* The forward pass of is_in_console_log *)

\* The locals of one iteration of the for loop, right after lines 96-103.
PassStart(start) ==
    [pos |-> start, paren_count |-> 1, in_string |-> FALSE,
     string_char |-> "None", escaped |-> FALSE]

while_cond(s, st) == st.pos < Len(s) /\ st.paren_count > 0

\* while_body with line 115 closing a quoted run on any quote character.
while_body_any_quote(s, st) ==
    LET char == s[st.pos + 1]
        nxt == [st EXCEPT !.pos = st.pos + 1]
    IN  IF st.escaped THEN [nxt EXCEPT !.escaped = FALSE]
        ELSE IF char = BACKSLASH THEN [nxt EXCEPT !.escaped = TRUE]
        ELSE IF ~st.in_string /\ char \in {DQUOTE, SQUOTE, BACKTICK}
             THEN [nxt EXCEPT !.in_string = TRUE, !.string_char = char]
        ELSE IF st.in_string /\ char \in {DQUOTE, SQUOTE, BACKTICK}
             THEN [nxt EXCEPT !.in_string = FALSE, !.string_char = "None"]
        ELSE IF ~st.in_string
             THEN IF char = "(" THEN [nxt EXCEPT !.paren_count = st.paren_count + 1]
                  ELSE IF char = ")" THEN [nxt EXCEPT !.paren_count = st.paren_count - 1]
                  ELSE nxt
        ELSE nxt

\* One iteration of the while loop, lines 106-124.
while_body(s, st) ==
    LET char == s[st.pos + 1]
        nxt == [st EXCEPT !.pos = st.pos + 1]
    IN  IF st.escaped THEN [nxt EXCEPT !.escaped = FALSE]
        ELSE IF char = BACKSLASH THEN [nxt EXCEPT !.escaped = TRUE]
        ELSE IF ~st.in_string /\ char \in {DQUOTE, SQUOTE, BACKTICK}
             THEN [nxt EXCEPT !.in_string = TRUE, !.string_char = char]
        ELSE IF st.in_string /\ char = st.string_char
             THEN [nxt EXCEPT !.in_string = FALSE, !.string_char = "None"]
        ELSE IF ~st.in_string
             THEN IF char = "(" THEN [nxt EXCEPT !.paren_count = st.paren_count + 1]
                  ELSE IF char = ")" THEN [nxt EXCEPT !.paren_count = st.paren_count - 1]
                  ELSE nxt
        ELSE nxt

RECURSIVE forward_pass(_, _)
forward_pass(s, st) ==
    IF while_cond(s, st) THEN forward_pass(s, while_body(s, st)) ELSE st

\* in_range with the lower comparison of line 127 strict.
in_range_after_start(start, col, p) == start < col /\ col <= p

\* The test of line 127.
in_range(start, col, p) == start <= col /\ col <= p

RECURSIVE console_from(_, _, _)
console_from(s, col, from) ==
    LET m == finditer(s, from) IN
    IF m = -1 THEN FALSE
    ELSE LET e == console_pattern(s, m)
             st == forward_pass(s, PassStart(e))
         IN IF in_range(m, col, st.pos) THEN TRUE ELSE console_from(s, col, e)

is_in_console_log(s, col) == console_from(s, col, 0)

----------------------------------------------------------------------------
(* find_emojis_in_file *)

\* A file is its bytes as the characters they decode to (BADBYTE marks a byte
\* sequence that is not UTF-8) and whether open() succeeds on it.

\* f.read() of line 139 raises on the first undecodable byte.
Decodable(content) == \A k \in 1..Len(content) : content[k] # BADBYTE

\* open() or read() of lines 138-139 raises.
ReadFails(f) == ~f.openable \/ ~Decodable(f.content)

\* content.split("\n") on the characters after offset from, cur being the
\* piece under construction.
RECURSIVE SplitFrom(_, _, _)
SplitFrom(content, from, cur) ==
    IF from > Len(content) THEN <<cur>>
    ELSE IF content[from] = NL THEN <<cur>> \o SplitFrom(content, from + 1, <<>>)
    ELSE SplitFrom(content, from + 1, Append(cur, content[from]))

split(content) == SplitFrom(content, 1, <<>>)

RECURSIVE lstrip(_)
lstrip(s) == IF s # <<>> /\ IsSpace(Head(s)) THEN lstrip(Tail(s)) ELSE s

RECURSIVE rstrip(_)
rstrip(s) ==
    IF s # <<>> /\ IsSpace(s[Len(s)]) THEN rstrip(SubSeq(s, 1, Len(s) - 1)) ELSE s

strip(s) == rstrip(lstrip(s))

startswith(s, lit) == LiteralAt(s, lit, 0)

\* The test of line 144.
is_comment(l) ==
    startswith(strip(l), <<"/", "/">>) \/ startswith(strip(l), <<"#">>)

Max(a, b) == IF a >= b THEN a ELSE b
Min(a, b) == IF a <= b THEN a ELSE b

\* Lines 154-156: line[start:end].strip().
context(l, col) ==
    strip(SubSeq(l, Max(0, col - 20) + 1, Min(Len(l), col + 20)))

\* Finding with the column counted from 0.
Finding_zero_based(l, ln, col) ==
    [line |-> ln, column |-> col - 1, emoji |-> l[col], context |-> context(l, col)]

\* The record appended by lines 158-160; col is the 1-based col_num.
Finding(l, ln, col) ==
    [line |-> ln, column |-> col, emoji |-> l[col], context |-> context(l, col)]

\* Lines 148-151: the character at 1-based col is recorded.
reported(l, col) == is_emoji(l[col]) /\ ~is_in_console_log(l, col - 1)

\* The inner for loop of lines 147-160 from column col on.
RECURSIVE line_findings(_, _, _)
line_findings(l, ln, col) ==
    IF col > Len(l) THEN <<>>
    ELSE (IF reported(l, col) THEN <<Finding(l, ln, col)>> ELSE <<>>)
         \o line_findings(l, ln, col + 1)

\* The outer for loop of lines 142-160 from line ln on.
RECURSIVE file_findings(_, _)
file_findings(ls, ln) ==
    IF ln > Len(ls) THEN <<>>
    ELSE (IF is_comment(ls[ln]) THEN <<>> ELSE line_findings(ls[ln], ln, 1))
         \o file_findings(ls, ln + 1)

\* find_emojis_in_file that drops the bytes it cannot decode.
find_emojis_in_file_lenient(f) ==
    IF ~f.openable THEN <<>>
    ELSE file_findings(split(SelectSeq(f.content, LAMBDA c : c # BADBYTE)), 1)

find_emojis_in_file(f) ==
    IF ReadFails(f) THEN <<>> ELSE file_findings(split(f.content), 1)

----------------------------------------------------------------------------
(* scan_directory and main: paths, the filters, the dict, the sorted report *)

\* A path is a sequence of components, a component a sequence of characters.
NODE_MODULES == <<"n", "o", "d", "e", "_", "m", "o", "d", "u", "l", "e", "s">>
DOT_GIT == <<".", "g", "i", "t">>
DIST == <<"d", "i", "s", "t">>
BUILD == <<"b", "u", "i", "l", "d">>
DOT_NEXT == <<".", "n", "e", "x", "t">>
COVERAGE == <<"c", "o", "v", "e", "r", "a", "g", "e">>
PYCACHE == <<"_", "_", "p", "y", "c", "a", "c", "h", "e", "_", "_">>

skip_dirs == {NODE_MODULES, DOT_GIT, DIST, BUILD, DOT_NEXT, COVERAGE, PYCACHE}

extensions ==
    {<<".", "j", "s">>, <<".", "j", "s", "x">>, <<".", "t", "s">>,
     <<".", "t", "s", "x">>, <<".", "c", "s", "s">>, <<".", "s", "c", "s", "s">>,
     <<".", "j", "s", "o", "n">>}

\* file_path.parts of an entry found under root: rglob yields root / relative.
file_parts(root, rel) == root \o rel

\* The test of line 186 on the components of the file's name alone.
in_skip_dir_name_only(path_parts) == path_parts[Len(path_parts)] \in skip_dirs

\* The test of line 186.
in_skip_dir(path_parts) ==
    \E d \in skip_dirs : \E k \in 1..Len(path_parts) : path_parts[k] = d

\* name.rfind("."), zero-based, -1 when there is no dot.
rfind_dot(name) ==
    LET dots == {k \in 1..Len(name) : name[k] = "."} IN
    IF dots = {} THEN -1 ELSE (CHOOSE k \in dots : \A j \in dots : j <= k) - 1

\* PurePath.suffix: the last dot and what follows it, unless that dot starts
\* or ends the name.
suffix(path_parts) ==
    LET name == path_parts[Len(path_parts)]
        i == rfind_dot(name)
    IN IF 0 < i /\ i < Len(name) - 1 THEN SubSeq(name, i + 1, Len(name)) ELSE <<>>

\* str(relative_path): the components joined by "/".
RECURSIVE path_str(_)
path_str(rel) ==
    IF Len(rel) = 1 THEN rel[1] ELSE rel[1] \o <<"/">> \o path_str(Tail(rel))

\* d[k] = v on a dict kept as its sequence of items in insertion order.
dict_set(d, k, v) ==
    IF \E i \in 1..Len(d) : d[i].key = k
    THEN [i \in 1..Len(d) |-> IF d[i].key = k THEN [key |-> k, value |-> v] ELSE d[i]]
    ELSE Append(d, [key |-> k, value |-> v])

\* a < b on strings: by code point, a proper prefix first.
RECURSIVE str_less(_, _)
str_less(a, b) ==
    IF b = <<>> THEN FALSE
    ELSE IF a = <<>> THEN TRUE
    ELSE IF ord(Head(a)) # ord(Head(b)) THEN ord(Head(a)) < ord(Head(b))
    ELSE str_less(Tail(a), Tail(b))

\* The sorted list with one more item put in its place.
RECURSIVE insert_sorted(_, _)
insert_sorted(sorted_items, item) ==
    IF sorted_items = <<>> THEN <<item>>
    ELSE IF str_less(item.key, Head(sorted_items).key)
         THEN <<item>> \o sorted_items
         ELSE <<Head(sorted_items)>> \o insert_sorted(Tail(sorted_items), item)

\* The iteration of line 218 without the sort: the dict's own order.
unsorted(items) == items

\* sorted(results.items()) of line 218; the keys of a dict are distinct, so
\* the key alone decides the order.
RECURSIVE sorted(_)
sorted(items) ==
    IF items = <<>> THEN <<>>
    ELSE insert_sorted(sorted(SubSeq(items, 1, Len(items) - 1)), items[Len(items)])

\* total_emojis after line 198 when every recorded file counts for one.
add_total_per_file(total, emojis) == total + 1

\* total_emojis after line 198.
add_total(total, emojis) == total + Len(emojis)

----------------------------------------------------------------------------
(* Values of the variable groups a specification does not exercise *)

LineIdle ==
    /\ line = <<>> /\ col_position = 0 /\ pc = "idle" /\ search = 0
    /\ mstart = 0 /\ pos = 0 /\ paren_count = 0 /\ in_string = FALSE
    /\ string_char = "None" /\ escaped = FALSE /\ ret = "None"

FileIdle ==
    /\ file = [content |-> <<>>, openable |-> TRUE] /\ fpc = "idle"
    /\ lines = <<>> /\ line_num = 0 /\ col_num = 0 /\ emojis_found = <<>>

WalkIdle ==
    /\ root_dir = <<>> /\ tree = {} /\ pending = {} /\ results = <<>>
    /\ total_emojis = 0 /\ wpc = "idle" /\ output = <<>>

----------------------------------------------------------------------------
(* is_in_console_log as a state machine: one call, one step per loop turn *)

\* Pieces a line is assembled from.
CALL_LOG == <<"c", "o", "n", "s", "o", "l", "e", ".", "l", "o", "g", "(">>
CONSOLE_DOT == <<"c", "o", "n", "s", "o", "l", "e", " ", ".">>
ERROR_OPEN == <<"e", "r", "r", "o", "r", TAB, "(">>

LineSegs ==
    {CALL_LOG, CONSOLE_DOT, ERROR_OPEN, <<"(">>, <<")">>, <<DQUOTE>>, <<SQUOTE>>,
     <<BACKTICK>>, <<BACKSLASH>>, <<EMOJI>>, <<"x">>}

\* The longest line is MaxSegs pieces.
MaxSegs == 3

RECURSIVE Concats(_, _)
Concats(segs, n) ==
    IF n = 0 THEN {<<>>}
    ELSE LET shorter == Concats(segs, n - 1) IN
         shorter \cup {l \o s : l \in shorter, s \in segs}

Lines == Concats(LineSegs, MaxSegs)

Locals ==
    [pos |-> pos, paren_count |-> paren_count, in_string |-> in_string,
     string_char |-> string_char, escaped |-> escaped]

SetLocals(st) ==
    /\ pos' = st.pos
    /\ paren_count' = st.paren_count
    /\ in_string' = st.in_string
    /\ string_char' = st.string_char
    /\ escaped' = st.escaped

LineInit ==
    /\ line \in Lines
    /\ col_position \in 0..(Len(line) - 1)
    /\ pc = "for" /\ search = 0 /\ mstart = 0
    /\ pos = 0 /\ paren_count = 0 /\ in_string = FALSE
    /\ string_char = "None" /\ escaped = FALSE /\ ret = "None"

\* Line 95 yields a match; lines 96-103.
NextMatch ==
    /\ pc = "for"
    /\ finditer(line, search) # -1
    /\ LET m == finditer(line, search)
           e == console_pattern(line, m)
       IN /\ mstart' = m
          /\ search' = e
          /\ SetLocals(PassStart(e))
    /\ pc' = "while"
    /\ UNCHANGED <<line, col_position, ret>>
    /\ UNCHANGED <<fileVars, walkVars>>

\* Line 95 is exhausted; line 130.
ReturnFalse ==
    /\ pc = "for"
    /\ finditer(line, search) = -1
    /\ ret' = FALSE
    /\ pc' = "done"
    /\ UNCHANGED <<line, col_position, search, mstart, pos, paren_count,
                   in_string, string_char, escaped>>
    /\ UNCHANGED <<fileVars, walkVars>>

\* Lines 105-124, one turn.
WhileStep ==
    /\ pc = "while"
    /\ while_cond(line, Locals)
    /\ SetLocals(while_body(line, Locals))
    /\ UNCHANGED <<line, col_position, pc, search, mstart, ret>>
    /\ UNCHANGED <<fileVars, walkVars>>

\* Lines 127-128.
ReturnTrue ==
    /\ pc = "while"
    /\ ~while_cond(line, Locals)
    /\ in_range(mstart, col_position, pos)
    /\ ret' = TRUE
    /\ pc' = "done"
    /\ UNCHANGED <<line, col_position, search, mstart, pos, paren_count,
                   in_string, string_char, escaped>>
    /\ UNCHANGED <<fileVars, walkVars>>

\* Line 127 is false: back to line 95.
NextIteration ==
    /\ pc = "while"
    /\ ~while_cond(line, Locals)
    /\ ~in_range(mstart, col_position, pos)
    /\ pc' = "for"
    /\ UNCHANGED <<line, col_position, search, mstart, pos, paren_count,
                   in_string, string_char, escaped, ret>>
    /\ UNCHANGED <<fileVars, walkVars>>

LineNext == NextMatch \/ ReturnFalse \/ WhileStep \/ ReturnTrue \/ NextIteration

InitLine == LineInit /\ FileIdle /\ WalkIdle

SpecLine == InitLine /\ [][LineNext]_vars

\* The state machine and the function agree on the verdict.
LineAgrees == pc = "done" => ret = is_in_console_log(line, col_position)

----------------------------------------------------------------------------
(* What the suppressor is to decide, stated on the line alone *)

\* The offsets at which a console.(log|warn|error|info|debug)( invocation starts.
CallStarts(s) == {i \in 0..(Len(s) - 1) : console_pattern(s, i) # -1}

\* Where the forward pass of the invocation starting at i stops.
CallPass(s, i) == forward_pass(s, PassStart(console_pattern(s, i)))

\* The invocation starting at i has no closing parenthesis on the line.
Unterminated(s, i) == CallPass(s, i).paren_count > 0

\* The offset of the invocation's matching closing parenthesis, or the line
\* end when it has none.
CallClose(s, i) == IF Unterminated(s, i) THEN Len(s) ELSE CallPass(s, i).pos - 1

\* off lies between the start of an invocation and its closing parenthesis.
InsideCall(s, off) == \E i \in CallStarts(s) : i <= off /\ off <= CallClose(s, i)

\* C1: is_in_console_log returns true only for an offset inside an invocation,
\* at or before its matching closing parenthesis (or the line end when the
\* invocation is unterminated); the code point right after a ')' is not
\* suppressed.
C1_TrueOnlyInsideCall ==
    (pc = "done" /\ ret = TRUE) => InsideCall(line, col_position)

\* C3: when an invocation has no closing parenthesis that brings the counter
\* to 0 before the line ends, every offset from the start of its match to the
\* end of the line is suppressed.
C3_UnterminatedSuppressed ==
    (pc = "done" /\ \E i \in CallStarts(line) :
                        Unterminated(line, i) /\ i <= col_position)
        => ret = TRUE

\* An unterminated invocation whose closing parenthesis sits in an unclosed
\* quoted run, asked about the offset of that parenthesis.
C3_Witness ==
    /\ pc = "done" /\ ret = TRUE
    /\ in_string /\ paren_count = 1
    /\ line[col_position + 1] = ")"
    /\ \E i \in CallStarts(line) : Unterminated(line, i) /\ i < col_position

\* A turn of the while loop has just been taken.
PassStep == pc = "while" /\ pos' = pos + 1

\* C8: in the forward pass a parenthesis changes the counter exactly when it is
\* unquoted and unescaped; a quoted run is opened by an unescaped quote
\* character and closed only by the same unescaped quote character; the escape
\* flag set by an unescaped backslash is cleared by the next character; the
\* pass stops at the unquoted, unescaped ')' that takes the counter from 1 to 0.
C8_PassDiscipline ==
    [][/\ PassStep =>
            LET char == line[pos + 1]
                bare == ~in_string /\ ~escaped
            IN /\ paren_count' # paren_count => char \in {"(", ")"} /\ bare
               /\ (char = "(" /\ bare) => paren_count' = paren_count + 1
               /\ (char = ")" /\ bare) => paren_count' = paren_count - 1
               /\ (in_string /\ ~in_string') => (char = string_char /\ ~escaped)
               /\ (in_string /\ (escaped \/ char # string_char))
                      => (in_string' /\ string_char' = string_char)
               /\ (~in_string /\ in_string')
                      => (char \in {DQUOTE, SQUOTE, BACKTICK} /\ ~escaped
                          /\ string_char' = char)
               /\ escaped' <=> (~escaped /\ char = BACKSLASH)
               /\ paren_count' = 0 => (char = ")" /\ bare /\ paren_count = 1)
       /\ (pc = "while" /\ paren_count = 0) => pos' = pos
      ]_vars

\* Inside a double-quoted run the pass has just read a single quote and the
\* run is still open.
C8_Witness ==
    /\ pc = "while" /\ pos > 0
    /\ in_string /\ string_char = DQUOTE
    /\ line[pos] = SQUOTE

----------------------------------------------------------------------------
(* find_emojis_in_file as a state machine: one step per character *)

COMMENT_SLASHES == <<"/", "/">>

ContentSegs ==
    {CALL_LOG, <<")">>, <<EMOJI>>, <<STAR>>, <<EACUTE>>, COMMENT_SLASHES, <<"#">>,
     <<" ">>, <<NL>>, <<"x">>, <<BADBYTE>>}

\* The longest file content is MaxContentSegs pieces.
MaxContentSegs == 3

Contents == Concats(ContentSegs, MaxContentSegs)

FileInit ==
    /\ file \in [content : Contents, openable : BOOLEAN]
    /\ fpc = "open"
    /\ lines = <<>> /\ line_num = 0 /\ col_num = 0
    /\ emojis_found = <<>>

\* Lines 138-139 raise; lines 161-164.
ReadError ==
    /\ fpc = "open"
    /\ ReadFails(file)
    /\ fpc' = "done"
    /\ UNCHANGED <<file, lines, line_num, col_num, emojis_found>>
    /\ UNCHANGED <<lineVars, walkVars>>

\* Lines 138-140.
ReadLines ==
    /\ fpc = "open"
    /\ ~ReadFails(file)
    /\ lines' = split(file.content)
    /\ line_num' = 1
    /\ fpc' = "line"
    /\ UNCHANGED <<file, col_num, emojis_found>>
    /\ UNCHANGED <<lineVars, walkVars>>

\* Lines 144-145.
SkipComment ==
    /\ fpc = "line"
    /\ line_num <= Len(lines)
    /\ is_comment(lines[line_num])
    /\ line_num' = line_num + 1
    /\ UNCHANGED <<file, fpc, lines, col_num, emojis_found>>
    /\ UNCHANGED <<lineVars, walkVars>>

\* Line 147 is reached.
EnterLine ==
    /\ fpc = "line"
    /\ line_num <= Len(lines)
    /\ ~is_comment(lines[line_num])
    /\ col_num' = 1
    /\ fpc' = "char"
    /\ UNCHANGED <<file, lines, line_num, emojis_found>>
    /\ UNCHANGED <<lineVars, walkVars>>

\* Line 148 is false.
SkipChar ==
    /\ fpc = "char"
    /\ col_num <= Len(lines[line_num])
    /\ ~is_emoji(lines[line_num][col_num])
    /\ col_num' = col_num + 1
    /\ UNCHANGED <<file, fpc, lines, line_num, emojis_found>>
    /\ UNCHANGED <<lineVars, walkVars>>

\* Lines 150-151.
SkipSuppressed ==
    /\ fpc = "char"
    /\ col_num <= Len(lines[line_num])
    /\ is_emoji(lines[line_num][col_num])
    /\ is_in_console_log(lines[line_num], col_num - 1)
    /\ col_num' = col_num + 1
    /\ UNCHANGED <<file, fpc, lines, line_num, emojis_found>>
    /\ UNCHANGED <<lineVars, walkVars>>

\* Lines 153-160.
Emit ==
    /\ fpc = "char"
    /\ col_num <= Len(lines[line_num])
    /\ reported(lines[line_num], col_num)
    /\ emojis_found' = Append(emojis_found, Finding(lines[line_num], line_num, col_num))
    /\ col_num' = col_num + 1
    /\ UNCHANGED <<file, fpc, lines, line_num>>
    /\ UNCHANGED <<lineVars, walkVars>>

\* Line 147 is exhausted.
EndLine ==
    /\ fpc = "char"
    /\ col_num > Len(lines[line_num])
    /\ line_num' = line_num + 1
    /\ fpc' = "line"
    /\ UNCHANGED <<file, lines, col_num, emojis_found>>
    /\ UNCHANGED <<lineVars, walkVars>>

\* Line 142 is exhausted; line 164.
ReturnFound ==
    /\ fpc = "line"
    /\ line_num > Len(lines)
    /\ fpc' = "done"
    /\ UNCHANGED <<file, lines, line_num, col_num, emojis_found>>
    /\ UNCHANGED <<lineVars, walkVars>>

FileNext ==
    \/ ReadError \/ ReadLines \/ SkipComment \/ EnterLine \/ SkipChar
    \/ SkipSuppressed \/ Emit \/ EndLine \/ ReturnFound

InitFile == FileInit /\ LineIdle /\ WalkIdle

SpecFile == InitFile /\ [][FileNext]_vars

\* The state machine and the function agree on the result.
FileAgrees == fpc = "done" => emojis_found = find_emojis_in_file(file)

\* The file was read and position (n, c) of it has a finding.
FoundAt(n, c) ==
    \E k \in 1..Len(emojis_found) :
        emojis_found[k].line = n /\ emojis_found[k].column = c

\* C2: a finding is emitted for a position exactly when the line is no
\* whole-line comment, is_emoji accepts the character and is_in_console_log
\* is false there; a whole-line comment has no finding; an emoji outside
\* every console.* call of a non-comment line is always emitted.
C2_EmittedExactlyOutsideCalls ==
    (fpc = "done" /\ ~ReadFails(file)) =>
        \A n \in 1..Len(lines) : \A c \in 1..Len(lines[n]) :
            /\ FoundAt(n, c) <=> /\ ~is_comment(lines[n])
                                 /\ is_emoji(lines[n][c])
                                 /\ ~is_in_console_log(lines[n], c - 1)
            /\ is_comment(lines[n]) => ~FoundAt(n, c)
            /\ (/\ ~is_comment(lines[n])
                /\ is_emoji(lines[n][c])
                /\ ~InsideCall(lines[n], c - 1)) => FoundAt(n, c)

\* (line, column) of finding a comes before that of finding b.
Before(a, b) == a.line < b.line \/ (a.line = b.line /\ a.column < b.column)

\* C9: the findings of a file are strictly increasing in (line, column), with
\* line >= 1 and 1 <= column <= length of that line.
C9_FindingsIncrease ==
    \A i \in 1..Len(emojis_found) :
        /\ emojis_found[i].line >= 1
        /\ emojis_found[i].line <= Len(lines)
        /\ emojis_found[i].column >= 1
        /\ emojis_found[i].column <= Len(lines[emojis_found[i].line])
        /\ \A j \in (i + 1)..Len(emojis_found) : Before(emojis_found[i], emojis_found[j])

\* A scan that returned two findings of one line and one of a later line.
C9_Witness ==
    /\ fpc = "done"
    /\ \E i, j \in 1..Len(emojis_found) :
        /\ i < j
        /\ emojis_found[i].line = 1 /\ emojis_found[i].column = 1
        /\ emojis_found[j].line = 2

----------------------------------------------------------------------------
(* scan_directory and main as a state machine: one step per entry of rglob *)

A_JS == <<"a", ".", "j", "s">>
A_CSS == <<"a", ".", "c", "s", "s">>
A_PY == <<"a", ".", "p", "y">>
DOT_JS == <<".", "j", "s">>
D_JS == <<"d", ".", "j", "s">>
S_JS == <<"s", ".", "j", "s">>
PKG == <<"p", "k", "g">>
INDEX_JS == <<"i", "n", "d", "e", "x", ".", "j", "s">>
DISTS == <<"d", "i", "s", "t", "s">>
SLASH == <<"/">>
WORK == <<"w", "o", "r", "k">>

\* What open() and read() give for a file of the tree: one emoji, two emojis
\* on two lines, an emoji inside console.log(...), an emoji followed by an
\* undecodable byte, an emoji in a file that cannot be opened.
ONE == [content |-> <<"x", "=", EMOJI>>, openable |-> TRUE]
TWO == [content |-> <<EMOJI, NL, STAR>>, openable |-> TRUE]
LOGGED == [content |-> CALL_LOG \o <<EMOJI, ")">>, openable |-> TRUE]
UNDECODABLE == [content |-> <<EMOJI, NL, BADBYTE>>, openable |-> TRUE]
LOCKED == [content |-> <<EMOJI>>, openable |-> FALSE]
NO_FILE == [content |-> <<>>, openable |-> FALSE]

FileKinds == {ONE, TWO, LOGGED, UNDECODABLE, LOCKED}

\* The entries a tree is drawn from, by path relative to the root: regular
\* files, an empty directory, and an entry that is neither (a socket, a
\* dangling link), on which open() raises.
FilePaths ==
    {<<A_JS>>, <<A_CSS>>, <<A_PY>>, <<DOT_JS>>, <<NODE_MODULES, PKG, INDEX_JS>>,
     <<DISTS, A_JS>>}
DirPaths == {<<D_JS>>}
OtherPaths == {<<S_JS>>}

Roots == {<<SLASH, WORK>>, <<SLASH, BUILD, WORK>>}

\* The largest tree has MaxEntries entries besides the directories above them.
MaxEntries == 2

Entry(path, f) ==
    IF path \in DirPaths THEN [path |-> path, kind |-> "dir", file |-> NO_FILE]
    ELSE IF path \in OtherPaths THEN [path |-> path, kind |-> "other", file |-> NO_FILE]
    ELSE [path |-> path, kind |-> "file", file |-> f]

\* The directories above the entries of t.
Ancestors(t) ==
    UNION {{[path |-> SubSeq(e.path, 1, k), kind |-> "dir", file |-> NO_FILE] :
               k \in 1..(Len(e.path) - 1)} : e \in t}

\* Everything root_path.rglob("*") yields for the tree t.
rglob(t) == t \cup Ancestors(t)

WalkInit ==
    /\ root_dir \in Roots
    /\ \E paths \in SUBSET (FilePaths \cup DirPaths \cup OtherPaths) :
        /\ Cardinality(paths) <= MaxEntries
        /\ \E f \in [paths -> FileKinds] : tree = {Entry(q, f[q]) : q \in paths}
    /\ pending = rglob(tree)
    /\ results = <<>>
    /\ total_emojis = 0
    /\ wpc = "walk"
    /\ output = [files |-> <<>>, total |-> 0, count |-> 0]

\* The entry e is the next one rglob yields; it is consumed.
Yield(e) ==
    /\ wpc = "walk"
    /\ e \in pending
    /\ pending' = pending \ {e}

\* Lines 182-183.
SkipDirectory ==
    /\ \E e \in pending :
        /\ Yield(e)
        /\ e.kind = "dir"
    /\ UNCHANGED <<root_dir, tree, results, total_emojis, wpc, output>>
    /\ UNCHANGED <<lineVars, fileVars>>

\* Lines 186-187.
SkipExcluded ==
    /\ \E e \in pending :
        /\ Yield(e)
        /\ e.kind # "dir"
        /\ in_skip_dir(file_parts(root_dir, e.path))
    /\ UNCHANGED <<root_dir, tree, results, total_emojis, wpc, output>>
    /\ UNCHANGED <<lineVars, fileVars>>

\* Lines 190-191.
SkipExtension ==
    /\ \E e \in pending :
        /\ Yield(e)
        /\ e.kind # "dir"
        /\ ~in_skip_dir(file_parts(root_dir, e.path))
        /\ suffix(file_parts(root_dir, e.path)) \notin extensions
    /\ UNCHANGED <<root_dir, tree, results, total_emojis, wpc, output>>
    /\ UNCHANGED <<lineVars, fileVars>>

\* Lines 193-195 with no finding.
ScanNothing ==
    /\ \E e \in pending :
        /\ Yield(e)
        /\ e.kind # "dir"
        /\ ~in_skip_dir(file_parts(root_dir, e.path))
        /\ suffix(file_parts(root_dir, e.path)) \in extensions
        /\ find_emojis_in_file(e.file) = <<>>
    /\ UNCHANGED <<root_dir, tree, results, total_emojis, wpc, output>>
    /\ UNCHANGED <<lineVars, fileVars>>

\* Lines 193-198.
Record ==
    /\ \E e \in pending :
        /\ Yield(e)
        /\ e.kind # "dir"
        /\ ~in_skip_dir(file_parts(root_dir, e.path))
        /\ suffix(file_parts(root_dir, e.path)) \in extensions
        /\ LET emojis == find_emojis_in_file(e.file) IN
            /\ emojis # <<>>
            /\ results' = dict_set(results, path_str(e.path), emojis)
            /\ total_emojis' = add_total(total_emojis, emojis)
    /\ UNCHANGED <<root_dir, tree, wpc, output>>
    /\ UNCHANGED <<lineVars, fileVars>>

\* Line 180 is exhausted; line 200 returns to line 211.
ReturnResults ==
    /\ wpc = "walk"
    /\ pending = {}
    /\ wpc' = "returned"
    /\ UNCHANGED <<root_dir, tree, pending, results, total_emojis, output>>
    /\ UNCHANGED <<lineVars, fileVars>>

\* Lines 213-230: the files in the order they are printed, and the summary.
Report ==
    /\ wpc = "returned"
    /\ output' = [files |-> sorted(results), total |-> total_emojis,
                  count |-> Len(results)]
    /\ wpc' = "done"
    /\ UNCHANGED <<root_dir, tree, pending, results, total_emojis>>
    /\ UNCHANGED <<lineVars, fileVars>>

WalkNext ==
    \/ SkipDirectory \/ SkipExcluded \/ SkipExtension \/ ScanNothing \/ Record
    \/ ReturnResults \/ Report

InitWalk == WalkInit /\ LineIdle /\ FileIdle

SpecWalk == InitWalk /\ [][WalkNext]_vars

----------------------------------------------------------------------------
(* What the walker is to return, stated on the tree alone *)

Keys(d) == {d[i].key : i \in 1..Len(d)}

\* A dict as the set of its (key, value) pairs, whatever the insertion order.
AsMapping(d) == {<<d[i].key, d[i].value>> : i \in 1..Len(d)}

RECURSIVE SumLens(_)
SumLens(d) == IF d = <<>> THEN 0 ELSE Len(Head(d).value) + SumLens(Tail(d))

RECURSIVE SumPairs(_)
SumPairs(m) ==
    IF m = {} THEN 0
    ELSE LET q == CHOOSE x \in m : TRUE IN Len(q[2]) + SumPairs(m \ {q})

\* A component of the path is an excluded name.
HasExcluded(path) == \E k \in 1..Len(path) : path[k] \in skip_dirs

\* The entry passes the filters of lines 182-191 when found under root.
Eligible(root, e) ==
    /\ e.kind # "dir"
    /\ ~HasExcluded(file_parts(root, e.path))
    /\ suffix(e.path) \in extensions

\* The mapping a scan of the entries t under root returns.
ScanOf(root, t) ==
    {<<path_str(e.path), find_emojis_in_file(e.file)>> :
        e \in {x \in t : Eligible(root, x) /\ find_emojis_in_file(x.file) # <<>>}}

\* The entries on which open() or read() raises.
Failing(t) == {e \in t : e.kind # "dir" /\ ReadFails(e.file)}

C5_ReadFailuresAreSkipped ==
    /\ \A e \in Failing(tree) : path_str(e.path) \notin Keys(results)
    /\ wpc = "done" =>
        /\ AsMapping(results) = ScanOf(root_dir, tree \ Failing(tree))
        /\ total_emojis = SumPairs(ScanOf(root_dir, tree \ Failing(tree)))

\* A finished scan of a tree holding a.js whose second line does not decode
\* and one other file that was recorded.
C5_Witness ==
    /\ wpc = "done"
    /\ [path |-> <<A_JS>>, kind |-> "file", file |-> UNDECODABLE] \in tree
    /\ Len(results) = 1

\* C6: after every file the total is the sum of the lengths of the recorded
\* results, no recorded result is empty, and the file count reported is the
\* number of keys.
C6_TotalIsSumOfLengths ==
    /\ total_emojis = SumLens(results)
    /\ \A i \in 1..Len(results) : results[i].value # <<>>
    /\ Cardinality(Keys(results)) = Len(results)
    /\ wpc = "done" =>
        /\ output.count = Cardinality(Keys(results))
        /\ output.total = total_emojis

\* a.js and a.css with one emoji each: total 2 and 2 entries.
C6_Witness ==
    /\ wpc = "done"
    /\ tree = {[path |-> <<A_JS>>, kind |-> "file", file |-> ONE],
               [path |-> <<A_CSS>>, kind |-> "file", file |-> ONE]}
    /\ output.total = 2
    /\ output.count = 2

\* The items are in strictly increasing order of key.
StrictlySorted(items) ==
    \A i \in 1..(Len(items) - 1) : str_less(items[i].key, items[i + 1].key)

\* C7: the mapping, the total and the order of the files in the report are
\* decided by the tree alone, whatever the order of the enumeration.
C7_OrderIndependent ==
    wpc = "done" =>
        /\ AsMapping(results) = ScanOf(root_dir, tree)
        /\ total_emojis = SumPairs(ScanOf(root_dir, tree))
        /\ AsMapping(output.files) = ScanOf(root_dir, tree)
        /\ Len(output.files) = Cardinality(ScanOf(root_dir, tree))
        /\ StrictlySorted(output.files)
        /\ output.total = SumPairs(ScanOf(root_dir, tree))

\* A finished scan whose enumeration yielded two recorded files in the
\* reverse of their sorted order.
C7_Witness ==
    /\ wpc = "done"
    /\ Len(results) = 2
    /\ str_less(results[2].key, results[1].key)

\* The entry passes the filters on its path relative to the root.
RelEligible(e) ==
    /\ e.kind # "dir"
    /\ ~HasExcluded(e.path)
    /\ suffix(e.path) \in extensions

RelScanOf(t) ==
    {<<path_str(e.path), find_emojis_in_file(e.file)>> :
        e \in {x \in t : RelEligible(x) /\ find_emojis_in_file(x.file) # <<>>}}

\* C10: whether a file is scanned depends only on its path relative to the
\* root, so the mapping and the total do not depend on the names of the root
\* directory and of the directories above it.
C10_RootIndependent ==
    wpc = "done" =>
        /\ AsMapping(results) = RelScanOf(tree)
        /\ total_emojis = SumPairs(RelScanOf(tree))

====
